---- MODULE Spec2Model ----
(***************************************************************************)
(* The live preview panel of the page editor                               *)
(* (client/src/entrypoints/admin/preview-panel.js, initPreview):           *)
(* the edit form is posted to the preview endpoint, the verdict sets the   *)
(* panel's flags, and the preview iframe is replaced by a freshly loaded   *)
(* one.  One state machine: the closure variables of initPreview, the      *)
(* fetches in flight, the iframes in the document and the named preview    *)
(* window are the state; every event handler is one action.  A handler     *)
(* and the promise callbacks that run with it in one turn of the event     *)
(* loop are one step.                                                      *)
(***************************************************************************)
EXTENDS Integers, Sequences, FiniteSets, TLC

\* ------------------------------------------------------------- bounds

\* setPreviewData calls in one run (the initial one included).
MaxRequests == 3
\* The same, where the user only edits and changes the preview mode.
MaxPollRequests == 4
\* Largest scroll offset the user reaches inside the preview iframe.
MaxScroll == 1
\* Longest query, in parameters, of the URLs a LinkController is given.
MaxParams == 2

\* ------------------------------------------------------------- values

\* The preview modes offered by [data-preview-mode-select].
Modes == {"default", "alt"}
InitialMode == "default"

\* A preview URL: its mode and in_preview_panel query parameters.
PreviewUrls == [mode : Modes, in_preview_panel : BOOLEAN]

\* window.scrollY / window.scrollX of an iframe.
ScrollPositions == [top : 0 .. MaxScroll, left : 0 .. MaxScroll]
ScrollOrigin == [top |-> 0, left |-> 0]

\* Strings are sequences of characters, so that serialization is computed.
Str_on == <<"o", "n">>
TextValues == {<<"a">>, <<"a", "&", "c", "=", "o", "n">>}

\* The edit form: a text input named "t" and a checkbox named "c".
Forms == [t : TextValues, c : BOOLEAN]

\* The JSON body of the preview endpoint's response.
Verdicts == [is_valid : BOOLEAN, is_available : BOOLEAN]

\* Who called setPreviewData: initPreview, the poll tick, or handlePreview
\* for a mode change or a new-tab click.
Origins == {"init", "poll", "mode", "newtab"}

RequestIds ==
    1 .. (IF MaxRequests > MaxPollRequests THEN MaxRequests ELSE MaxPollRequests)

\* --------------------------------------------------- pure functions

\* new FormData(form): the entry list; an unchecked checkbox has no entry.
FormData(f) ==
    <<[name |-> <<"t">>, value |-> f.t]>>
    \o (IF f.c THEN <<[name |-> <<"c">>, value |-> Str_on]>> ELSE <<>>)

\* application/x-www-form-urlencoded byte serializer, one character.
encodeChar(ch) ==
    IF ch = "&" THEN <<"%", "2", "6">>
    ELSE IF ch = "=" THEN <<"%", "3", "D">>
    ELSE <<ch>>

RECURSIVE encode(_)
encode(s) == IF s = <<>> THEN <<>> ELSE encodeChar(Head(s)) \o encode(Tail(s))

\* new URLSearchParams(data).toString()
RECURSIVE serialize(_)
serialize(entries) ==
    IF entries = <<>> THEN <<>>
    ELSE encode(Head(entries).name) \o <<"=">> \o encode(Head(entries).value)
         \o (IF Tail(entries) = <<>> THEN <<>> ELSE <<"&">> \o serialize(Tail(entries)))

\* The index of the first ch in s, and 0 when there is none.
indexOf(s, ch) ==
    IF \A i \in 1 .. Len(s) : s[i] # ch THEN 0
    ELSE CHOOSE i \in 1 .. Len(s) :
            s[i] = ch /\ \A j \in 1 .. (i - 1) : s[j] # ch

\* s.split(sep)
RECURSIVE split(_, _)
split(s, sep) ==
    IF indexOf(s, sep) = 0 THEN <<s>>
    ELSE <<SubSeq(s, 1, indexOf(s, sep) - 1)>>
         \o split(SubSeq(s, indexOf(s, sep) + 1, Len(s)), sep)

\* Percent-decoding, the inverse of encode on the characters it escapes.
RECURSIVE decode(_)
decode(s) ==
    IF s = <<>> THEN <<>>
    ELSE IF Len(s) >= 3 /\ SubSeq(s, 1, 3) = <<"%", "2", "6">>
    THEN <<"&">> \o decode(SubSeq(s, 4, Len(s)))
    ELSE IF Len(s) >= 3 /\ SubSeq(s, 1, 3) = <<"%", "3", "D">>
    THEN <<"=">> \o decode(SubSeq(s, 4, Len(s)))
    ELSE <<Head(s)>> \o decode(Tail(s))

\* new URLSearchParams(search): the application/x-www-form-urlencoded
\* parser.  Empty sequences between "&" are dropped, a sequence is cut at
\* its first "=", and both halves are percent-decoded.
parse(search) ==
    LET seqs == SelectSeq(split(search, "&"), LAMBDA q : q # <<>>)
        pair(q) ==
            IF indexOf(q, "=") = 0 THEN [name |-> decode(q), value |-> <<>>]
            ELSE [name |-> decode(SubSeq(q, 1, indexOf(q, "=") - 1)),
                  value |-> decode(SubSeq(q, indexOf(q, "=") + 1, Len(q)))]
    IN [i \in 1 .. Len(seqs) |-> pair(seqs[i])]

\* The query parameters of the URLs a LinkController meets: three keys, and
\* values of which one needs escaping.
Keys == {<<"p">>, <<"q">>, <<"x">>}
ParamValues == {<<"1">>, <<"&">>}
Params == [name : Keys, value : ParamValues]

\* The lists of at most n parameters.
RECURSIVE ParamLists(_)
ParamLists(n) ==
    IF n = 0 THEN {<<>>}
    ELSE ParamLists(n - 1)
         \cup {Append(l, e) : l \in {k \in ParamLists(n - 1) : Len(k) = n - 1},
                               e \in Params}

\* url.search, without its "?", of the URLs a LinkController is given.
Queries == {serialize(l) : l \in ParamLists(MaxParams)}

\* The forms one user edit away from f: one field's value changed.
SingleFieldChanges(f) ==
    {g \in Forms : (g.t # f.t /\ g.c = f.c) \/ (g.t = f.t /\ g.c # f.c)}

\* --------------------------------------------------------------- state

VARIABLES
    autoUpdate,            \* previewPanel.dataset.autoUpdate === 'true'
    form,                  \* the field values of [data-edit-form]
    oldData,               \* hasChanges' snapshot (a FormData)
    hasPendingUpdate,
    spinnerHidden,         \* loadingSpinner carries the class w-hidden
    panelClasses,          \* previewPanel.classList, the two status classes
    iframe,                \* the current preview iframe (an element id)
    surfaces,              \* the preview iframes in the document, by id
    iframeLastScroll,
    newTabHref,            \* newTabButton.href
    selectValue,           \* previewModeSelect.value
    requests,              \* the fetches in flight, by id
    numRequests,           \* setPreviewData calls so far
    settledWith,           \* how the promise settled last was settled
    alerts,                \* window.alert calls so far
    unhandledRejections,   \* rejected promises nobody caught
    previewWindow,         \* the browser window named previewUrl
    focused,               \* the window the script focused last
    unsent,                \* history: the body of the submission that failed
                           \* last, until a later submission carries it
    scrollLog,             \* history: per swap under way, iframeLastScroll
                           \* as it was when the request left (remembered)
                           \* and when its response arrived (captured)
    link                   \* the element of a LinkController, its
                           \* preserveKeys value and window.location's query

vars == <<autoUpdate, form, oldData, hasPendingUpdate, spinnerHidden,
          panelClasses, iframe, surfaces, iframeLastScroll, newTabHref,
          selectValue, requests, numRequests, settledWith, alerts,
          unhandledRejections, previewWindow, focused, unsent, scrollLog,
          link>>

\* The state of the preview panel, which a LinkController leaves alone.
panelVars == <<autoUpdate, form, oldData, hasPendingUpdate, spinnerHidden,
               panelClasses, iframe, surfaces, iframeLastScroll, newTabHref,
               selectValue, requests, numRequests, settledWith, alerts,
               unhandledRejections, previewWindow, focused, unsent,
               scrollLog>>

HAS_ERRORS == "preview-panel--has-errors"
UNAVAILABLE == "preview-panel--unavailable"

\* The preview window: id 0 when no window of that name is open; its
\* location is <<>> for about:blank and <<u>> for the URL u.
NoWindow == [id |-> 0, location |-> <<>>]

\* link.attr is <<>> when the element lacks the attribute and <<q>> when
\* it has a URL with the query q; link.location is the query of
\* window.location.href.
\* No LinkController is connected: an element without the attribute and
\* without keys to preserve, on a page whose URL has no query.
NoLink == [attr |-> <<>>, preserveKeys |-> {}, location |-> <<>>]

\* No FormData of the form is empty: the text input always has an entry.
NoBody == <<>>

\* The attributes of the iframe of the page template, src apart.
TemplateAttrs == ("data-preview-iframe" :> "") @@ ("title" :> "Preview")

\* The inline style reloadIframe gives the new iframe: zero size, transparent.
PlaceholderStyle == "width:0;height:0;opacity:0;position:absolute"

\* element.classList.toggle(name, force)
toggle(classes, name, force) ==
    IF force THEN classes \cup {name} ELSE classes \ {name}

\* f with key k dropped.
Without(f, k) == [x \in DOMAIN f \ {k} |-> f[x]]

\* ---------------------------------------------------------- operations

\* updateIframeLastScroll: the value of iframeLastScroll after the call.
updateIframeLastScroll ==
    IF iframe \notin DOMAIN surfaces THEN iframeLastScroll
    ELSE surfaces[iframe].scroll

\* A mutation of reloadIframe: the new iframe is never put in the document.
reloadIframeDetached(id) == surfaces

\* reloadIframe up to addEventListener: the document with the new iframe
\* id inserted after the current one, loading the current iframe's src.
reloadIframe(id) ==
    IF iframe \notin DOMAIN surfaces THEN surfaces
    ELSE surfaces @@ (id :> [src |-> surfaces[iframe].src,
                             attrs |-> ("style" :> PlaceholderStyle),
                             scroll |-> ScrollOrigin,
                             listener |-> TRUE,
                             navigating |-> FALSE])

\* element.attributes: src among the others.
attributes(e) == e.attrs @@ ("src" :> e.src)

\* A mutation of copyAttributes: src is copied like every other attribute.
copyAttributesWithSrc(old, new) ==
    [k \in (DOMAIN old \cup DOMAIN new) \cup {"style"} |->
        IF k = "style" THEN ""
        ELSE IF k \in DOMAIN old THEN old[k] ELSE new[k]]

\* The attribute copy of handleLoad, then newIframe.style = null: the
\* attributes of the new iframe, given those of the old and the new one.
copyAttributes(old, new) ==
    [k \in (DOMAIN old \cup DOMAIN new) \cup {"style"} |->
        IF k = "style" THEN ""
        ELSE IF k \in DOMAIN old /\ k # "src" THEN old[k] ELSE new[k]]

\* A mutation of afterRemove: the old iframe stays in the document.
afterRemoveKept == DOMAIN surfaces

\* iframe.remove(): the iframes left in the document.
afterRemove == DOMAIN surfaces \ {iframe}

\* A mutation of readyForAnotherUpdate: the pending flag is left as it is.
readyForAnotherUpdateSpinnerOnly ==
    /\ spinnerHidden' = TRUE
    /\ UNCHANGED hasPendingUpdate

\* "Ready for another update": the spinner is hidden, the flag cleared.
readyForAnotherUpdate ==
    /\ spinnerHidden' = TRUE
    /\ hasPendingUpdate' = FALSE

\* A mutation of removeEventListener: handleLoad stays attached.
removeEventListenerSkipped(e) == e

\* newIframe.removeEventListener('load', handleLoad)
removeEventListener(e) == [e EXCEPT !.listener = FALSE]

\* handleLoad: the load event of the iframe n that reloadIframe inserted.
handleLoad(n) ==
    /\ n \in DOMAIN surfaces
    /\ surfaces[n].listener
    /\ LET copied == copyAttributes(attributes(surfaces[iframe]),
                                    attributes(surfaces[n]))
           swapped == [surfaces[n] EXCEPT
                          !.src = copied["src"],
                          !.attrs = Without(copied, "src"),
                          !.scroll = iframeLastScroll]
       IN surfaces' = [k \in afterRemove |->
                          IF k = n THEN removeEventListener(swapped)
                          ELSE surfaces[k]]
    /\ iframe' = n
    /\ readyForAnotherUpdate
    /\ scrollLog' = Without(scrollLog, n)
    /\ UNCHANGED <<autoUpdate, form, oldData, panelClasses, iframeLastScroll,
                   newTabHref, selectValue, requests, numRequests,
                   settledWith, alerts, unhandledRejections, previewWindow,
                   focused, unsent, link>>

\* A mutation of submittedBody: the snapshot of the comparator is posted.
submittedBodyStale == oldData

\* The body of the fetch of setPreviewData: new FormData(form).
submittedBody == FormData(form)

\* setPreviewData up to the fetch call: the request leaves with the form's
\* entries as its body.  win is the window a new-tab click holds.
setPreviewData(origin, win) ==
    /\ hasPendingUpdate' = TRUE
    /\ spinnerHidden' = FALSE
    /\ numRequests' = numRequests + 1
    /\ requests' = requests @@ ((numRequests + 1) :>
                       [origin |-> origin, body |-> submittedBody, win |-> win])
    /\ unsent' = IF unsent = submittedBody THEN NoBody ELSE unsent
    /\ scrollLog' = scrollLog @@ ((numRequests + 1) :>
                       [remembered |-> iframeLastScroll', captured |-> <<>>])

\* The callers' continuations once the promise of request r is fulfilled
\* with success (handlePreviewInNewTab's then) or, after handlePreview's
\* catch, with undefined.  Navigating or closing a window that is closed
\* already changes nothing.
NewTabThen(r, success) ==
    IF requests[r].origin # "newtab"
    THEN UNCHANGED <<previewWindow, focused>>
    ELSE IF success
    THEN /\ previewWindow' =
              IF previewWindow.id = requests[r].win
              THEN [previewWindow EXCEPT !.location = <<newTabHref>>]
              ELSE previewWindow
         /\ UNCHANGED focused
    ELSE /\ focused' = "editor"
         /\ previewWindow' =
              IF previewWindow.id = requests[r].win THEN NoWindow
              ELSE previewWindow

\* A mutation of verdictClasses: both classes follow is_valid.
verdictClassesValidOnly(classes, data) ==
    toggle(toggle(classes, HAS_ERRORS, ~data.is_valid),
           UNAVAILABLE, ~data.is_valid)

\* The two classList.toggle calls of the then-callback.
verdictClasses(classes, data) ==
    toggle(toggle(classes, HAS_ERRORS, ~data.is_valid),
           UNAVAILABLE, ~data.is_available)

\* The then-callback of setPreviewData: the response to r is the JSON data.
Respond(r, data) ==
    /\ r \in DOMAIN requests
    /\ panelClasses' = verdictClasses(panelClasses, data)
    /\ iframeLastScroll' = updateIframeLastScroll
    /\ surfaces' = reloadIframe(r)
    /\ requests' = Without(requests, r)
    /\ settledWith' = IF data.is_valid THEN "true" ELSE "false"
    /\ NewTabThen(r, data.is_valid)
    /\ scrollLog' = [scrollLog EXCEPT ![r].captured = <<updateIframeLastScroll>>]
    /\ UNCHANGED <<autoUpdate, form, oldData, hasPendingUpdate,
                   spinnerHidden, iframe, newTabHref, selectValue,
                   numRequests, alerts, unhandledRejections, unsent, link>>

\* A mutation of CaughtByHandlePreview: every caller alerts.
CaughtByEveryCaller(origin) == TRUE

\* Whether the caller of the submission of this origin catches a rejection:
\* handlePreview does, the poll tick and initPreview call setPreviewData bare.
CaughtByHandlePreview(origin) == origin \in {"mode", "newtab"}

\* A mutation of catchReset: the pending flag is left as it is.
catchResetSpinnerOnly ==
    /\ spinnerHidden' = TRUE
    /\ UNCHANGED hasPendingUpdate

\* The first two statements of the catch-callback of setPreviewData.
catchReset ==
    /\ spinnerHidden' = TRUE
    /\ hasPendingUpdate' = FALSE

\* The catch-callback of setPreviewData: fetch or response.json() rejected;
\* the error is thrown on to the caller.
Fail(r) ==
    /\ r \in DOMAIN requests
    /\ catchReset
    /\ requests' = Without(requests, r)
    /\ settledWith' = "rejected"
    /\ unsent' = requests[r].body
    /\ IF CaughtByHandlePreview(requests[r].origin)
       THEN /\ alerts' = alerts + 1
            /\ UNCHANGED unhandledRejections
            /\ NewTabThen(r, FALSE)
       ELSE /\ unhandledRejections' = unhandledRejections + 1
            /\ UNCHANGED <<alerts, previewWindow, focused>>
    /\ scrollLog' = Without(scrollLog, r)
    /\ UNCHANGED <<autoUpdate, form, oldData, panelClasses, iframe, surfaces,
                   iframeLastScroll, newTabHref, selectValue, numRequests,
                   link>>

\* handlePreviewInNewTab: a click on [data-preview-new-tab].  window.open
\* with the name previewUrl returns the window of that name when one is
\* open, and opens a blank one otherwise.
handlePreviewInNewTab ==
    /\ previewWindow' =
          IF previewWindow.id # 0 THEN previewWindow
          ELSE [id |-> numRequests + 1, location |-> <<>>]
    /\ focused' = "preview"
    /\ UNCHANGED <<autoUpdate, form, oldData, panelClasses, iframe, surfaces,
                   iframeLastScroll, newTabHref, selectValue, settledWith,
                   alerts, unhandledRejections, link>>
    /\ setPreviewData("newtab", previewWindow'.id)

\* hasChanges: its return value.
hasChanges == serialize(oldData) # serialize(FormData(form))

\* A mutation of hasChangesStored: the snapshot is never replaced.
hasChangesStoredNever == oldData

\* hasChanges: the snapshot it leaves in oldData.
hasChangesStored == FormData(form)

\* A mutation of PollSkips: the tick does not look at the pending flag.
PollSkipsNever == FALSE

\* Whether the poll tick returns before calling hasChanges.
PollSkips == hasPendingUpdate

\* A mutation of skippedTick: the tick that returns early has called
\* hasChanges all the same.
skippedTickCompares ==
    /\ oldData' = hasChangesStored
    /\ UNCHANGED <<autoUpdate, form, hasPendingUpdate, spinnerHidden,
                   panelClasses, iframe, surfaces, iframeLastScroll,
                   newTabHref, selectValue, requests, numRequests,
                   settledWith, alerts, unhandledRejections, previewWindow,
                   focused, unsent, scrollLog, link>>

\* The tick that returns before hasChanges is called: hasPendingUpdate ||
\* !hasChanges() does not evaluate its right operand.
skippedTick == UNCHANGED vars

\* The setInterval callback.
PollTick ==
    /\ autoUpdate
    /\ IF PollSkips THEN skippedTick
       ELSE /\ oldData' = hasChangesStored
            /\ UNCHANGED <<autoUpdate, form, panelClasses, iframe, surfaces,
                           iframeLastScroll, newTabHref, selectValue,
                           settledWith, alerts, unhandledRejections,
                           previewWindow, focused, link>>
            /\ IF hasChanges
               THEN setPreviewData("poll", 0)
               ELSE UNCHANGED <<hasPendingUpdate, spinnerHidden, requests,
                                numRequests, unsent, scrollLog>>

\* A mutation of searchParamsDelete: the parameter stays.
searchParamsKept(url) == url

\* url.searchParams.delete('in_preview_panel')
searchParamsDelete(url) == [url EXCEPT !.in_preview_panel = FALSE]

\* handlePreviewModeChange: the change event of the mode select.
handlePreviewModeChange(mode) ==
    /\ mode # selectValue
    /\ selectValue' = mode
    /\ LET url == [surfaces[iframe].src EXCEPT !.mode = mode]
       IN /\ iframeLastScroll' = updateIframeLastScroll
          /\ surfaces' = [surfaces EXCEPT ![iframe].src = url,
                                          ![iframe].navigating = TRUE]
          /\ newTabHref' = searchParamsDelete(url)
    /\ setPreviewData("mode", 0)
    /\ UNCHANGED <<autoUpdate, form, oldData, panelClasses, iframe,
                   settledWith, alerts, unhandledRejections, previewWindow,
                   focused, link>>

\* ------------------------------------------------------- LinkController

\* get url(): the query of the element's URL.  A missing attribute reads as
\* '', which resolves to window.location.href itself.
currentUrl == IF link.attr = <<>> THEN link.location ELSE link.attr[1]

\* params.forEach((_, key) => { if (preserveKeys.includes(key))
\* params.delete(key) }): forEach visits the list by index and reads it
\* afresh at each index, and delete removes every pair named key; i is the
\* index visited next.
RECURSIVE forEachDelete(_, _)
forEachDelete(params, i) ==
    IF i > Len(params) THEN params
    ELSE IF params[i].name \in link.preserveKeys
    THEN forEachDelete(
             SelectSeq(params, LAMBDA e : e.name # params[i].name), i + 1)
    ELSE forEachDelete(params, i + 1)

\* currentUrl.searchParams.forEach: the preserved pairs of the element's
\* URL are appended to params, in their order.
appendPreserved(params) ==
    params \o SelectSeq(parse(currentUrl),
                        LAMBDA e : e.name \in link.preserveKeys)

\* setParamsFromURL(url), for a url with the query search.
setParamsFromURL(search) ==
    /\ Len(parse(currentUrl)) <= MaxParams
    /\ link' = [link EXCEPT !.attr =
                  <<serialize(appendPreserved(forEachDelete(parse(search), 1)))>>]
    /\ UNCHANGED panelVars

\* setParamsFromSwapRequest(e): detail is <<>> for an event without
\* requestUrl and <<q>> for a requestUrl with the query q.
setParamsFromSwapRequest(detail) ==
    IF detail = <<>> THEN UNCHANGED vars
    ELSE setParamsFromURL(detail[1])

\* setParamsFromLocation, which connect() calls.
setParamsFromLocation == setParamsFromURL(link.location)

\* ---------------------------------------------------------- environment

\* The user changes one field of the edit form.
EditForm(f) ==
    /\ f \in SingleFieldChanges(form)
    /\ form' = f
    /\ UNCHANGED <<autoUpdate, oldData, hasPendingUpdate, spinnerHidden,
                   panelClasses, iframe, surfaces, iframeLastScroll,
                   newTabHref, selectValue, requests, numRequests,
                   settledWith, alerts, unhandledRejections, previewWindow,
                   focused, unsent, scrollLog, link>>

\* The user scrolls the preview shown in the current iframe.
UserScroll(pos) ==
    /\ pos # surfaces[iframe].scroll
    /\ surfaces' = [surfaces EXCEPT ![iframe].scroll = pos]
    /\ UNCHANGED <<autoUpdate, form, oldData, hasPendingUpdate,
                   spinnerHidden, panelClasses, iframe, iframeLastScroll,
                   newTabHref, selectValue, requests, numRequests,
                   settledWith, alerts, unhandledRejections, previewWindow,
                   focused, unsent, scrollLog, link>>

\* The navigation that assigning iframe.src started commits: the iframe
\* shows the new document, scrolled to its top, and its load event finds no
\* listener of the panel (with handleLoad attached, the event is handleLoad).
IframeNavigated(s) ==
    /\ s \in DOMAIN surfaces
    /\ surfaces[s].navigating
    /\ ~surfaces[s].listener
    /\ surfaces' = [surfaces EXCEPT ![s].scroll = ScrollOrigin,
                                    ![s].navigating = FALSE]
    /\ UNCHANGED <<autoUpdate, form, oldData, hasPendingUpdate,
                   spinnerHidden, panelClasses, iframe, iframeLastScroll,
                   newTabHref, selectValue, requests, numRequests,
                   settledWith, alerts, unhandledRejections, previewWindow,
                   focused, unsent, scrollLog, link>>

\* ------------------------------------------------------- specifications

\* initPreview has run: the snapshot is taken and the first submission left.
InitPanel ==
    /\ oldData = FormData(form)
    /\ hasPendingUpdate = TRUE
    /\ spinnerHidden = FALSE
    /\ panelClasses = {}
    /\ iframe = 0
    /\ surfaces = (0 :> [src |-> [mode |-> InitialMode, in_preview_panel |-> TRUE],
                         attrs |-> TemplateAttrs,
                         scroll |-> ScrollOrigin,
                         listener |-> FALSE,
                         navigating |-> FALSE])
    /\ iframeLastScroll = ScrollOrigin
    /\ newTabHref = [mode |-> InitialMode, in_preview_panel |-> FALSE]
    /\ selectValue = InitialMode
    /\ requests = (1 :> [origin |-> "init", body |-> FormData(form), win |-> 0])
    /\ numRequests = 1
    /\ settledWith = "none"
    /\ alerts = 0
    /\ unhandledRejections = 0
    /\ previewWindow = NoWindow
    /\ focused = "editor"
    /\ unsent = NoBody
    /\ scrollLog = (1 :> [remembered |-> ScrollOrigin, captured |-> <<>>])

\* The forms that differ from f in the checkbox at most.
SameText(f) == {g \in Forms : g.t = f.t}

\* The runs are cut off after limit submissions.
Within(limit) == numRequests < limit

\* The submission protocol: every handler of the panel, with and without
\* auto-update, a user who toggles the form's checkbox, picks preview modes
\* and clicks the new-tab link, and a preview that stays scrolled to its top.
Init ==
    /\ autoUpdate \in BOOLEAN
    /\ form \in SameText([t |-> <<"a">>, c |-> FALSE])
    /\ InitPanel
    /\ link = NoLink

Next ==
    \/ \E f \in SameText(form) : EditForm(f)
    \/ Within(MaxRequests) /\ PollTick
    \/ \E r \in RequestIds, data \in Verdicts : Respond(r, data)
    \/ \E r \in RequestIds : Fail(r)
    \/ \E n \in RequestIds : handleLoad(n)
    \/ \E mode \in Modes : Within(MaxRequests) /\ handlePreviewModeChange(mode)
    \/ Within(MaxRequests) /\ handlePreviewInNewTab

Spec == Init /\ [][Next]_vars

\* The poll beside one kind of explicit submission: the mode change.
InitPoll ==
    /\ autoUpdate = TRUE
    /\ form \in SameText([t |-> <<"a">>, c |-> FALSE])
    /\ InitPanel
    /\ link = NoLink

NextPoll ==
    \/ \E f \in SameText(form) : EditForm(f)
    \/ Within(MaxPollRequests) /\ PollTick
    \/ \E r \in RequestIds, data \in Verdicts : Respond(r, data)
    \/ \E r \in RequestIds : Fail(r)
    \/ \E n \in RequestIds : handleLoad(n)
    \/ \E mode \in Modes : Within(MaxPollRequests) /\ handlePreviewModeChange(mode)

SpecPoll == InitPoll /\ [][NextPoll]_vars

\* The comparator: every edit of every field, the poll and the fate of the
\* submissions it issues; no mode change and no new-tab click.
InitForm ==
    /\ autoUpdate = TRUE
    /\ form \in Forms
    /\ InitPanel
    /\ link = NoLink

NextForm ==
    \/ \E f \in Forms : EditForm(f)
    \/ Within(MaxPollRequests) /\ PollTick
    \/ \E r \in RequestIds, data \in Verdicts : Respond(r, data)
    \/ \E r \in RequestIds : Fail(r)
    \/ \E n \in RequestIds : handleLoad(n)

SpecForm == InitForm /\ [][NextForm]_vars

\* The view: a user who scrolls the preview and picks preview modes, the
\* reloads of a preview whose src was rewritten, and the swaps; the form is
\* left alone and there is no poll, so every submission after initPreview's
\* is a mode change's.
InitView ==
    /\ autoUpdate = FALSE
    /\ form = [t |-> <<"a">>, c |-> FALSE]
    /\ InitPanel
    /\ link = NoLink

NextView ==
    \/ \E pos \in ScrollPositions : UserScroll(pos)
    \/ \E s \in {0} \cup RequestIds : IframeNavigated(s)
    \/ \E r \in RequestIds, data \in Verdicts : Respond(r, data)
    \/ \E r \in RequestIds : Fail(r)
    \/ \E n \in RequestIds : handleLoad(n)
    \/ \E mode \in Modes : Within(MaxRequests) /\ handlePreviewModeChange(mode)

SpecView == InitView /\ [][NextView]_vars

\* The view of a user who scrolls the preview only before the first change
\* of the preview mode: afterwards the scroll position moves only when the
\* browser or the panel moves it.
NextRestore ==
    \/ \E pos \in ScrollPositions : numRequests = 1 /\ UserScroll(pos)
    \/ \E s \in {0} \cup RequestIds : IframeNavigated(s)
    \/ \E r \in RequestIds, data \in Verdicts : Respond(r, data)
    \/ \E r \in RequestIds : Fail(r)
    \/ \E n \in RequestIds : handleLoad(n)
    \/ \E mode \in Modes : Within(MaxRequests) /\ handlePreviewModeChange(mode)

SpecRestore == InitView /\ [][NextRestore]_vars

\* The reloads alone: as the view, with a user who does not scroll.
NextReload ==
    \/ \E s \in {0} \cup RequestIds : IframeNavigated(s)
    \/ \E r \in RequestIds, data \in Verdicts : Respond(r, data)
    \/ \E r \in RequestIds : Fail(r)
    \/ \E n \in RequestIds : handleLoad(n)
    \/ \E mode \in Modes : Within(MaxRequests) /\ handlePreviewModeChange(mode)

SpecReload == InitView /\ [][NextReload]_vars

\* The fate of the pending flag: the poll, the edits and the mode changes
\* under a preview endpoint that finds every form valid, where every
\* request in flight is answered or fails in the end and every iframe put
\* in the document fires its load event in the end.
Valid == [is_valid |-> TRUE, is_available |-> TRUE]

NextLive ==
    \/ \E f \in SameText(form) : EditForm(f)
    \/ Within(MaxRequests) /\ PollTick
    \/ \E r \in RequestIds : Respond(r, Valid)
    \/ \E r \in RequestIds : Fail(r)
    \/ \E n \in RequestIds : handleLoad(n)
    \/ \E mode \in Modes : Within(MaxRequests) /\ handlePreviewModeChange(mode)

SpecLive ==
    /\ InitPoll
    /\ [][NextLive]_vars
    /\ \A r \in RequestIds : WF_vars(Respond(r, Valid) \/ Fail(r))
    /\ \A n \in RequestIds : WF_vars(handleLoad(n))

\* The LinkController: an element with or without the attribute, every
\* choice of preserved keys, a page URL with one query parameter at most;
\* the controller is connected and receives swap requests.
InitLink ==
    /\ autoUpdate = FALSE
    /\ form = [t |-> <<"a">>, c |-> FALSE]
    /\ InitPanel
    /\ link \in [attr : {<<>>} \cup {<<q>> : q \in Queries},
                  preserveKeys : SUBSET Keys,
                  location : {serialize(l) : l \in ParamLists(1)}]

NextLink ==
    \/ \E detail \in {<<>>} \cup {<<q>> : q \in Queries} :
           setParamsFromSwapRequest(detail)
    \/ setParamsFromLocation

SpecLink == InitLink /\ [][NextLink]_vars

\* --------------------------------------------------------------- claims

\* What a step did, read off the two states.
Issued(origin) ==
    \E r \in DOMAIN requests' \ DOMAIN requests : requests'[r].origin = origin

Settles(r) == r \in DOMAIN requests /\ r \notin DOMAIN requests'

Rejects(r) == Settles(r) /\ settledWith' = "rejected"

Fulfils(r) == Settles(r) /\ settledWith' \in {"true", "false"}

PollRequests == {r \in DOMAIN requests : requests[r].origin = "poll"}

Loading == {n \in DOMAIN surfaces : surfaces[n].listener}

\* C1: a submission the poll issues leaves from a state where
\* hasPendingUpdate is false and the form's serialization differs from the
\* snapshot's, and a tick that fires while hasPendingUpdate is true issues
\* no request.
C1_PollSubmitsOnlyIdleAndChanged ==
    [][/\ Issued("poll") =>
              /\ ~hasPendingUpdate
              /\ serialize(oldData) # serialize(FormData(form))
       /\ (PollTick /\ hasPendingUpdate) => requests' = requests]_vars

\* A submission of the poll is in flight, and the flag it set is up.
C1_Witness == PollRequests # {} /\ hasPendingUpdate

\* C2: at most one request issued by the poll is in flight at any time.
C2_OnePollRequestInFlight == Cardinality(PollRequests) <= 1

\* C3: while a request is in flight or an inserted iframe has not finished
\* loading, hasPendingUpdate is true.
C3_PendingWhileBusy ==
    (DOMAIN requests # {} \/ Loading # {}) => hasPendingUpdate

\* C4: a hasChanges call returns true exactly when the form's serialization
\* differs from the stored snapshot's and always stores the form as the new
\* snapshot; so it returns false over a form unchanged since the last call
\* and true over a form one field change away from the snapshot.  (The tick
\* submits exactly when the call returns true.)
C4_HasChanges ==
    [][(PollTick /\ ~hasPendingUpdate) =>
          /\ oldData' = FormData(form)
          /\ Issued("poll") <=> (serialize(FormData(form)) # serialize(oldData))
          /\ (oldData = FormData(form)) => ~Issued("poll")
          /\ (\E g \in Forms : oldData = FormData(g) /\ form \in SingleFieldChanges(g))
                => Issued("poll")]_vars

\* hasChanges has returned true over an edited text field and stored it.
C4_Witness ==
    \E r \in PollRequests :
        /\ requests[r].body = oldData
        /\ oldData = FormData(form)
        /\ form.t # <<"a">>

\* C5: the step in which a submission's request fails leaves the pending
\* flag false and the spinner hidden, hands the rejection to the caller
\* (one alert, or one unhandled rejection), creates no iframe and changes
\* neither the current iframe nor the panel's status classes.
C5_FailureLeavesPreview ==
    [][\A r \in RequestIds : Rejects(r) =>
          /\ ~hasPendingUpdate'
          /\ spinnerHidden'
          /\ alerts' + unhandledRejections' = alerts + unhandledRejections + 1
          /\ surfaces' = surfaces
          /\ iframe' = iframe
          /\ panelClasses' = panelClasses]_vars

\* A request has just failed while the panel carried a status class.
C5_Witness ==
    /\ settledWith = "rejected"
    /\ ~hasPendingUpdate
    /\ spinnerHidden
    /\ panelClasses # {}

C7_NextTickRetries ==
    (autoUpdate /\ unsent # NoBody /\ unsent = FormData(form) /\ ~hasPendingUpdate)
        => hasChanges

\* C7 as amended: while the content of a failed submission is still the
\* form's, a mode change or a new-tab click issues a submission that carries
\* it, without any edit; the poll issues one only when the form's
\* serialization differs from the snapshot hasChanges stored last.
C7_UserActionRetries ==
    [][(unsent # NoBody /\ unsent = FormData(form)) =>
          /\ ((\E m \in Modes : handlePreviewModeChange(m)) \/ handlePreviewInNewTab)
                => (Issued("mode") \/ Issued("newtab"))
          /\ (Issued("mode") \/ Issued("newtab")) =>
                /\ requests'[numRequests'].body = unsent
                /\ unsent' = NoBody
          /\ Issued("poll") => serialize(oldData) # serialize(unsent)]_vars

\* The last settlement was a failure, and since then a mode change or a
\* new-tab click has sent the content that failed.
C7_Witness ==
    /\ settledWith = "rejected"
    /\ unsent = NoBody
    /\ numRequests \in DOMAIN requests
    /\ requests[numRequests].origin \in {"mode", "newtab"}
    /\ requests[numRequests].body = FormData(form)

\* C8: the step that decodes a response leaves has-errors set exactly when
\* is_valid is false and unavailable set exactly when is_available is false,
\* and settles the submission with is_valid.
C8_FlagsFollowVerdict ==
    [][\A r \in RequestIds, data \in Verdicts : Respond(r, data) =>
          /\ (HAS_ERRORS \in panelClasses') = ~data.is_valid
          /\ (UNAVAILABLE \in panelClasses') = ~data.is_available
          /\ settledWith' = IF data.is_valid THEN "true" ELSE "false"]_vars

\* An invalid but available verdict has been decoded: the flags differ.
C8_Witness ==
    /\ settledWith = "false"
    /\ HAS_ERRORS \in panelClasses
    /\ UNAVAILABLE \notin panelClasses

\* The other three combinations of the two flags.
C8_ReachesBoth == HAS_ERRORS \in panelClasses /\ UNAVAILABLE \in panelClasses
C8_ReachesUnavailableOnly ==
    settledWith = "true" /\ HAS_ERRORS \notin panelClasses /\ UNAVAILABLE \in panelClasses
C8_ReachesNeither ==
    settledWith = "true" /\ panelClasses = {}

\* C9: an iframe is inserted in exactly the steps that fulfil a request with
\* a decoded verdict, whatever the verdict: it is the iframe of that request,
\* it starts loading, and the current iframe stays current.
C9_SwapIffVerdict ==
    [][\A n \in RequestIds :
          /\ (n \in DOMAIN surfaces' /\ n \notin DOMAIN surfaces) <=> Fulfils(n)
          /\ Fulfils(n) => (surfaces'[n].listener /\ iframe' = iframe)]_vars

\* A verdict with is_valid false has started a swap that is still loading.
C9_Witness ==
    /\ settledWith = "false"
    /\ HAS_ERRORS \in panelClasses
    /\ \E n \in Loading : n \notin DOMAIN requests

\* C10: a new-tab click leaves the preview window open (blank when the click
\* opened it) and focused with its request issued; when its submission
\* settles, the window the click holds is open at the new-tab URL if the
\* submission resolved with is_valid true, and otherwise the editor window
\* is focused and the window the click holds is closed.
C10_NewTabFollowsVerdict ==
    [][/\ Issued("newtab") =>
              /\ previewWindow'.id # 0
              /\ previewWindow'.id = requests'[numRequests'].win
              /\ focused' = "preview"
              /\ previewWindow.id = 0 => previewWindow'.location = <<>>
       /\ \A r \in RequestIds :
              (Settles(r) /\ requests[r].origin = "newtab") =>
                  IF settledWith' = "true"
                  THEN /\ previewWindow'.id = requests[r].win
                       /\ previewWindow'.location = <<newTabHref>>
                  ELSE /\ focused' = "editor"
                       /\ previewWindow'.id # requests[r].win]_vars

\* The step completes the swap of iframe n: n, still loading, becomes the
\* current iframe.
Completes(n) == n \in Loading /\ iframe # n /\ iframe' = n

\* C11: the scroll position the completion of a swap applies to the new
\* iframe is the one that was captured from the current iframe when that
\* swap's response arrived.
C11_RestoresScrollCapturedAtResponse ==
    [][\A n \in RequestIds :
          Completes(n) => surfaces'[n].scroll = scrollLog[n].captured[1]]_vars

\* C12: when a swap completes, every attribute the replaced iframe carried,
\* src apart, is on the new current iframe with the same value, and the new
\* iframe keeps the src it was created with.
C12_AttributesCopiedExceptSrc ==
    [][\A n \in RequestIds : Completes(n) =>
          /\ \A k \in DOMAIN surfaces[iframe].attrs :
                 /\ k \in DOMAIN surfaces'[n].attrs
                 /\ surfaces'[n].attrs[k] = surfaces[iframe].attrs[k]
          /\ surfaces'[n].src = surfaces[n].src]_vars

\* A swap has completed over an iframe whose src a mode change had rewritten
\* after the new iframe was created: the new iframe carries the template's
\* attributes, and a src that differs from the one the old iframe had.
C12_Witness ==
    /\ iframe # 0
    /\ DOMAIN surfaces = {iframe}
    /\ \A k \in DOMAIN TemplateAttrs :
           k \in DOMAIN surfaces[iframe].attrs
           /\ surfaces[iframe].attrs[k] = TemplateAttrs[k]
    /\ surfaces[iframe].src.mode # selectValue
    /\ numRequests = 2

\* C13: there is always one current iframe and it is in the document; it
\* stays current and in the document through every step that completes no
\* swap; the step that completes a swap removes it and makes the new iframe
\* current; and when no swap is loading, the current iframe is the only
\* preview iframe in the document.
C13_OneCurrentSurface ==
    /\ [](/\ iframe \in DOMAIN surfaces
          /\ Loading = {} => DOMAIN surfaces = {iframe})
    /\ [][/\ (\A n \in RequestIds : ~Completes(n)) =>
                 (iframe' = iframe /\ iframe \in DOMAIN surfaces')
          /\ \A n \in RequestIds : Completes(n) =>
                 /\ iframe \notin DOMAIN surfaces'
                 /\ n \in DOMAIN surfaces'
                 /\ DOMAIN surfaces' = DOMAIN surfaces \ {iframe}]_vars

\* Two swaps overlapped and completed in the reverse order: both requests
\* were answered, nothing is loading any more, and the iframe of the first
\* one is current.
C13_Witness ==
    /\ numRequests = 2
    /\ requests = <<>>
    /\ alerts + unhandledRejections = 0
    /\ Loading = {}
    /\ iframe = 1
    /\ DOMAIN surfaces = {1}

\* C14: a change of the preview mode to m leaves the mode parameter of the
\* current iframe's src at m and the new-tab link at that URL without
\* in_preview_panel, and issues a submission, whatever the pending flag and
\* whether or not the form differs from the snapshot.
C14_ModeChangeRewritesAndSubmits ==
    [][\A m \in Modes : handlePreviewModeChange(m) =>
          /\ iframe' = iframe
          /\ surfaces'[iframe].src = [mode |-> m, in_preview_panel |-> TRUE]
          /\ newTabHref' = [mode |-> m, in_preview_panel |-> FALSE]
          /\ Issued("mode")
          /\ requests'[numRequests'].body = FormData(form)]_vars

\* The mode was changed while the initial submission was still in flight
\* (the pending flag up) over a form equal to the snapshot: the mode
\* change's request is in flight beside it.
C14_Witness ==
    /\ DOMAIN requests = {1, 2}
    /\ requests[2].origin = "mode"
    /\ DOMAIN surfaces = {0}
    /\ hasPendingUpdate
    /\ autoUpdate
    /\ ~hasChanges
    /\ surfaces[iframe].src.mode = "alt"
    /\ newTabHref = [mode |-> "alt", in_preview_panel |-> FALSE]

\* The same over a form that differs from the snapshot, nothing pending.
C14_ReachesIdleAndChanged ==
    /\ requests # <<>>
    /\ \A r \in DOMAIN requests : requests[r].origin = "mode"
    /\ numRequests = 2
    /\ Loading = {}
    /\ autoUpdate
    /\ hasChanges

\* C15: handleLoad runs once per swap.  The current iframe never carries the
\* listener; handleLoad runs only as the completion of a swap that is still
\* loading and leaves its iframe without the listener for good; and the
\* load event of an iframe whose src a mode change rewrote leaves the
\* pending flag, the spinner, the current iframe and the set of iframes in
\* the document as they are.
C15_HandleLoadRunsOnce ==
    /\ [](iframe \notin Loading)
    /\ [][/\ \A n \in RequestIds : handleLoad(n) => Completes(n)
          /\ \A n \in DOMAIN surfaces \cap DOMAIN surfaces' :
                 n \notin Loading => ~surfaces'[n].listener
          /\ \A s \in DOMAIN surfaces \cap DOMAIN surfaces' :
                 (surfaces[s].navigating /\ ~surfaces'[s].navigating) =>
                     /\ UNCHANGED <<hasPendingUpdate, spinnerHidden, iframe>>
                     /\ DOMAIN surfaces' = DOMAIN surfaces]_vars

\* The iframe of the first swap became current, a mode change then rewrote
\* its src, and its second load event has fired: the mode change's request
\* is still in flight, the pending flag still up and the spinner shown.
C15_Witness ==
    /\ iframe = 1
    /\ numRequests = 2
    /\ 2 \in DOMAIN requests
    /\ surfaces[1].src.mode = "alt"
    /\ ~surfaces[1].navigating
    /\ hasPendingUpdate
    /\ ~spinnerHidden

\* C16: when no request is in flight and no iframe is loading, the src of
\* the current iframe carries the mode chosen last in the mode select.
C16_ModeOfLastChangeShown ==
    (requests = <<>> /\ Loading = {}) => surfaces[iframe].src.mode = selectValue

\* C17: with auto-update, no step taken while the pending flag is up
\* changes the snapshot (a tick skipped for the flag does not call
\* hasChanges), and a tick that finds the flag down and the form different
\* from the snapshot issues a submission whose body is the form as it is.
C17_ChangeWhilePendingIsSent ==
    [][autoUpdate =>
          /\ hasPendingUpdate => oldData' = oldData
          /\ (PollTick /\ ~hasPendingUpdate /\ hasChanges) =>
                 /\ Issued("poll")
                 /\ requests'[numRequests'].body = FormData(form)]_vars

\* The initial submission was answered and its iframe has loaded, which
\* cleared the flag, and the tick after that has sent a form that differs
\* from the one the initial submission carried.
C17_Witness ==
    /\ autoUpdate
    /\ iframe = 1
    /\ numRequests = 2
    /\ 2 \in PollRequests
    /\ requests[2].body = FormData(form)
    /\ oldData = FormData(form)

\* A change of the form waits while the flag is up: the snapshot is behind.
C17_ReachesChangeWhilePending ==
    autoUpdate /\ hasPendingUpdate /\ requests # <<>> /\ hasChanges

\* C18: when every request is answered or fails in the end and every
\* inserted iframe loads in the end, a raised pending flag is lowered
\* again.
C18_PendingClears == hasPendingUpdate ~> ~hasPendingUpdate

\* The flag is down after a submission of the poll and one of a mode change:
\* both were issued, and nothing is in flight or loading any more.
C18_Witness ==
    /\ ~hasPendingUpdate
    /\ numRequests = 3
    /\ requests = <<>>
    /\ Loading = {}
    /\ selectValue # InitialMode
    /\ oldData # FormData([t |-> <<"a">>, c |-> FALSE])
    /\ iframe = 3

\* C19: the swap a mode change triggers restores the scroll position that
\* the mode change remembered.  (Under SpecRestore and SpecView every
\* request after the first is a mode change's.)
C19_RestoresScrollRememberedAtModeChange ==
    [][\A n \in RequestIds \ {1} :
          Completes(n) => surfaces'[n].scroll = scrollLog[n].remembered]_vars

\* The values of the parameters named k in the list params, in order.
valuesOf(params, k) ==
    LET named == SelectSeq(params, LAMBDA e : e.name = k)
    IN [i \in 1 .. Len(named) |-> named[i].value]

\* C20: setParamsFromURL(url) leaves the element's URL with, for every
\* preserved key, the values that key had on the element before and none
\* from url, and for every other key the values from url in order; a swap
\* request without requestUrl leaves the attribute as it is.
C20_PreservedFromElementOthersFromUrl ==
    [][\A detail \in {<<>>} \cup {<<q>> : q \in Queries} :
          setParamsFromSwapRequest(detail) =>
              IF detail = <<>> THEN link'.attr = link.attr
              ELSE \A k \in Keys :
                      valuesOf(parse(link'.attr[1]), k) =
                          IF k \in link.preserveKeys
                          THEN valuesOf(parse(currentUrl), k)
                          ELSE valuesOf(parse(detail[1]), k)]_vars

====
